---- MODULE Spec2Model ----
(***************************************************************************)
(* Model of the mutual-fund FAQ retrieval pipeline:                        *)
(*   scripts/build_vector_store.py  chunk extraction and index build       *)
(*   scripts/rag_query.py           load_index, retrieve, compose_answer   *)
(*   app.py                         POST /api/query                        *)
(*                                                                         *)
(* Python values are encoded as strings.  None is the string None below,   *)
(* a number is a string of Numbers; every other string is a Python str.    *)
(* A Python dict is a TLA+ record whose DOMAIN is the set of keys present. *)
(* A text built by an f-string is the sequence of the pieces it joins.     *)
(***************************************************************************)
EXTENDS Integers, Sequences, FiniteSets, TLC

\* ------------------------------------------------------------------ bounds

\* builds started in one behaviour
MaxBuilds == 3
\* largest top_k a direct caller of retrieve passes
MaxTopK == 3
\* scheme and guide records in a corpus handed to the extractor alone
MaxSchemes == 2
MaxGuides == 1
\* hits in a sequence handed to the composer alone
MaxHits == 2

\* ------------------------------------------------------------ Python values

None == "<None>"
Numbers == {"<500>", "<0>"}

\* isinstance(v, str)
IsStr(v) == v \notin (Numbers \cup {None})

\* bool(v): None, "" and 0 are falsy
Truthy(v) == v \notin {None, "", "<0>"}

\* a or b
PyOr(a, b) == IF Truthy(a) THEN a ELSE b

\* how an f-string renders a value
Str(v) == CASE v = None -> "None"
            [] v = "<500>" -> "500"
            [] v = "<0>" -> "0"
            [] OTHER -> v

\* d.get(k, default)
Get(d, k, default) == IF k \in DOMAIN d THEN d[k] ELSE default

\* field.replace("_", " ").title()
PrettyField(field) == CASE field = "expense_ratio" -> "Expense Ratio"
                        [] field = "exit_load" -> "Exit Load"
                        [] field = "riskometer" -> "Riskometer"
                        [] field = "min_sip" -> "Min Sip"
                        [] OTHER -> field

\* ------------------------------------------------------------ the extractor

NoError == "none"

Raise(e) == [err |-> e, chunks |-> <<>>]
Yield(cs) == [err |-> NoError, chunks |-> cs]

\* the scheme_overview chunk, build_vector_store.py 46-55
OverviewChunk(payload) ==
    LET scheme == payload["scheme_name"]
        source_url == payload["source_url"]
        md == payload["metadata"]
    IN [text |-> << Str(scheme), " is a ", Str(Get(md, "category", None)),
                    " scheme in the ", Str(Get(md, "sub_category", None)),
                    " category offered by ", Str(Get(md, "fund_house", None)),
                    ". Data source: ", Str(source_url) >>,
        metadata |-> [type |-> "scheme_overview", scheme |-> scheme,
                      url |-> source_url]]

\* the resolved description of one attribute, build_vector_store.py 60-64
Description(value) ==
    IF value.kind = "dict"
    THEN LET display == PyOr(Get(value.d, "display", None), Get(value.d, "value", None))
         IN IF IsStr(Get(value.d, "value", None)) THEN Get(value.d, "value", None)
            ELSE display
    ELSE value.v

\* the citation url of one attribute, build_vector_store.py 72-77
AttrUrl(value, source_url) ==
    IF value.kind = "dict" THEN Get(value.d, "source_url", source_url)
    ELSE source_url

\* an extractor that emits a chunk for an attribute whose description is None
AttributeChunk_NoSkip(scheme, source_url, attr) ==
    << [text |-> << Str(scheme), " - ", PrettyField(attr.field), ": ",
                    Str(Description(attr.value)), ".", " Source: ",
                    Str(AttrUrl(attr.value, source_url)) >>,
        metadata |-> [type |-> "scheme_attribute", field |-> attr.field,
                      scheme |-> scheme,
                      url |-> AttrUrl(attr.value, source_url)]] >>

\* one attribute: nothing when its description is None, else one chunk
AttributeChunk(scheme, source_url, attr) ==
    LET description == Description(attr.value)
    IN IF description = None THEN <<>>
       ELSE << [text |-> << Str(scheme), " - ", PrettyField(attr.field), ": ",
                            Str(description), ".", " Source: ",
                            Str(AttrUrl(attr.value, source_url)) >>,
                metadata |-> [type |-> "scheme_attribute", field |-> attr.field,
                              scheme |-> scheme,
                              url |-> AttrUrl(attr.value, source_url)]] >>

RECURSIVE AttributeChunks(_, _, _)
AttributeChunks(scheme, source_url, attrs) ==
    IF attrs = <<>> THEN <<>>
    ELSE AttributeChunk(scheme, source_url, Head(attrs))
         \o AttributeChunks(scheme, source_url, Tail(attrs))

\* one linked document, build_vector_store.py 89-97
DocumentChunk(scheme, source_url, doc) ==
    [text |-> << Str(scheme), " has a ", Str(Get(doc, "type", None)),
                 " document at ", Str(Get(doc, "url", None)), "." >>,
     metadata |-> [type |-> "scheme_document", scheme |-> scheme,
                   url |-> Get(doc, "url", source_url)]]

RECURSIVE DocumentChunks(_, _, _)
DocumentChunks(scheme, source_url, docs) ==
    IF docs = <<>> THEN <<>>
    ELSE << DocumentChunk(scheme, source_url, Head(docs)) >>
         \o DocumentChunks(scheme, source_url, Tail(docs))

\* the chunks of one scheme file, or the KeyError of a missing required key
SchemeChunks(payload) ==
    IF \/ "scheme_name" \notin DOMAIN payload
       \/ "source_url" \notin DOMAIN payload
       \/ "metadata" \notin DOMAIN payload
    THEN Raise("KeyError")
    ELSE Yield(<< OverviewChunk(payload) >>
               \o AttributeChunks(payload["scheme_name"], payload["source_url"],
                                  Get(payload, "attributes", <<>>))
               \o DocumentChunks(payload["scheme_name"], payload["source_url"],
                                 Get(payload, "documents", <<>>)))

RECURSIVE load_scheme_chunks(_)
load_scheme_chunks(schemes) ==
    IF schemes = <<>> THEN Yield(<<>>)
    ELSE LET first == SchemeChunks(Head(schemes))
             rest == load_scheme_chunks(Tail(schemes))
         IN IF first.err # NoError THEN first
            ELSE IF rest.err # NoError THEN rest
            ELSE Yield(first.chunks \o rest.chunks)

\* " ".join(steps)
RECURSIVE JoinSteps(_)
JoinSteps(steps) ==
    IF steps = <<>> THEN <<>>
    ELSE IF Len(steps) = 1 THEN << steps[1] >>
    ELSE << steps[1], " " >> \o JoinSteps(Tail(steps))

\* one method of a guide, build_vector_store.py 106-116
RECURSIVE MethodChunks(_, _, _)
MethodChunks(guide_key, source_url, methods) ==
    IF methods = <<>> THEN Yield(<<>>)
    ELSE LET method == Head(methods)
             rest == MethodChunks(guide_key, source_url, Tail(methods))
         IN IF "label" \notin DOMAIN method THEN Raise("KeyError")
            ELSE IF rest.err # NoError THEN rest
            ELSE Yield(<< [text |-> << Str(method["label"]), ": " >>
                                    \o JoinSteps(Get(method, "steps", <<>>))
                                    \o << " Source: ", Str(source_url) >>,
                           metadata |-> [type |-> "guide", guide_key |-> guide_key,
                                         label |-> method["label"],
                                         url |-> source_url]] >>
                       \o rest.chunks)

GuideChunks(payload) ==
    IF \/ "source_url" \notin DOMAIN payload
       \/ "guide_key" \notin DOMAIN payload
    THEN Raise("KeyError")
    ELSE MethodChunks(payload["guide_key"], payload["source_url"],
                      Get(payload, "methods", <<>>))

RECURSIVE load_guide_chunks(_)
load_guide_chunks(guides) ==
    IF guides = <<>> THEN Yield(<<>>)
    ELSE LET first == GuideChunks(Head(guides))
             rest == load_guide_chunks(Tail(guides))
         IN IF first.err # NoError THEN first
            ELSE IF rest.err # NoError THEN rest
            ELSE Yield(first.chunks \o rest.chunks)

\* a collect_chunks that skips the family whose record is malformed
collect_chunks_SkipBad(corpus) ==
    LET s == load_scheme_chunks(corpus.schemes)
        g == load_guide_chunks(corpus.guides)
        cs == (IF s.err = NoError THEN s.chunks ELSE <<>>)
              \o (IF g.err = NoError THEN g.chunks ELSE <<>>)
    IN IF cs = <<>> THEN Raise("RuntimeError") ELSE Yield(cs)

\* collect_chunks: all scheme chunks, then all guide chunks; no chunk is fatal
collect_chunks(corpus) ==
    LET s == load_scheme_chunks(corpus.schemes)
    IN IF s.err # NoError THEN s
       ELSE LET g == load_guide_chunks(corpus.guides)
            IN IF g.err # NoError THEN g
               ELSE IF s.chunks \o g.chunks = <<>> THEN Raise("RuntimeError")
               ELSE Yield(s.chunks \o g.chunks)

\* ------------------------------------------------- the embedding and search

\* words the embedding function is sensitive to
Keywords == {"e", "Expense Ratio", "expense_ratio", "SID"}

RECURSIVE KeywordCount(_)
KeywordCount(text) ==
    IF text = <<>> THEN 0
    ELSE (IF Head(text) \in Keywords THEN 1 ELSE 0) + KeywordCount(Tail(text))

\* SentenceTransformer(EMBED_MODEL).encode: a fixed function from a text to a
\* vector of fixed dimension
Embed(text) == << Len(text) % 4, KeywordCount(text) >>

\* squared Euclidean distance of IndexFlatL2
L2(a, b) == (a[1] - b[1]) * (a[1] - b[1]) + (a[2] - b[2]) * (a[2] - b[2])

\* the position and the distance index.search reports where nothing matched
NoMatch == -1
NoMatchDistance == 1000

Min(a, b) == IF a < b THEN a ELSE b

\* index.search(query_vec, top_k): the top_k nearest rows in ascending
\* distance, rows at equal distance in any order, padded with NoMatch
Search(rows, qvec, top_k) ==
    LET n == Len(rows)
        m == Min(n, top_k)
        Nearest == { s \in [1..m -> 1..n] :
                       /\ \A i, j \in 1..m : i < j =>
                            /\ s[i] # s[j]
                            /\ L2(rows[s[i]], qvec) <= L2(rows[s[j]], qvec)
                       /\ \A r \in 1..n : (\A i \in 1..m : s[i] # r) =>
                            \A i \in 1..m : L2(rows[s[i]], qvec) <= L2(rows[r], qvec) }
    IN { [indices |-> [p \in 1..top_k |-> IF p <= m THEN s[p] ELSE NoMatch],
          distances |-> [p \in 1..top_k |->
                           IF p <= m THEN L2(rows[s[p]], qvec) ELSE NoMatchDistance]]
         : s \in Nearest }

\* ---------------------------------------------------------------- the files

Absent == [exists |-> FALSE, build |-> 0, rows |-> <<>>]
Written(b, rows) == [exists |-> TRUE, build |-> b, rows |-> rows]

\* build_index: one embedding per chunk text, in chunk order
IndexRows(chunks) == [i \in 1..Len(chunks) |-> Embed(chunks[i].text)]

\* a build_index that leaves chunks without a source url out of the payload
DocumentsPayload_DropUncited(chunks) ==
    LET kept == SelectSeq(chunks, LAMBDA c : Truthy(c.metadata.url))
    IN [i \in 1..Len(kept) |-> [text |-> kept[i].text, metadata |-> kept[i].metadata]]

\* build_index: documents_payload
DocumentsPayload(chunks) ==
    [i \in 1..Len(chunks) |-> [text |-> chunks[i].text, metadata |-> chunks[i].metadata]]

\* ------------------------------------------------------------- the retriever

\* a retrieve that takes the rank from the matched position
Hit_RankFromIndex(res, metadata, p) ==
    [rank |-> res.indices[p],
     distance |-> res.distances[p],
     text |-> metadata[res.indices[p]].text,
     metadata |-> metadata[res.indices[p]].metadata]

\* a retrieve that takes the metadata from the first matched row
Hit_MetadataOfTop(res, metadata, p) ==
    [rank |-> p,
     distance |-> res.distances[p],
     text |-> metadata[res.indices[p]].text,
     metadata |-> metadata[res.indices[1]].metadata]

\* the hit of rank p (1-based) of a search result
Hit(res, metadata, p) ==
    [rank |-> p,
     distance |-> res.distances[p],
     text |-> metadata[res.indices[p]].text,
     metadata |-> metadata[res.indices[p]].metadata]

\* retrieve, the loop over indices[0]: NoMatch positions are skipped, a
\* position past the end of the document store raises IndexError
RECURSIVE HitsFrom(_, _, _)
HitsFrom(res, metadata, p) ==
    IF p > Len(res.indices) THEN [err |-> NoError, hits |-> <<>>]
    ELSE IF res.indices[p] = NoMatch THEN HitsFrom(res, metadata, p + 1)
    ELSE IF res.indices[p] > Len(metadata) THEN [err |-> "IndexError", hits |-> <<>>]
    ELSE LET rest == HitsFrom(res, metadata, p + 1)
         IN IF rest.err # NoError THEN rest
            ELSE [err |-> NoError, hits |-> << Hit(res, metadata, p) >> \o rest.hits]

RetrieveHits(res, metadata) == HitsFrom(res, metadata, 1)

\* ------------------------------------------------------------- the composer

NoSnippetMessage == << "I could not find a factual snippet for that question." >>
MissingUrlMessage == << "I found information but the source URL is missing." >>

\* a compose_answer that cites without testing the url
compose_answer_NoUrlTest(question, hits) ==
    IF hits = <<>> THEN NoSnippetMessage
    ELSE LET top == hits[1]
             url == Get(top.metadata, "url", None)
         IN << "Answer: " >> \o top.text \o << "\n\n", "Source: ", Str(url) >>

compose_answer(question, hits) ==
    IF hits = <<>> THEN NoSnippetMessage
    ELSE LET top == hits[1]
             url == Get(top.metadata, "url", None)
         IN IF ~Truthy(url) THEN MissingUrlMessage
            ELSE << "Answer: " >> \o top.text \o << "\n\n", "Source: ", Str(url) >>

\* -------------------------------------------------------------- the inputs

SeqsUpTo(S, n) == UNION { [1..k -> S] : k \in 0..n }

MetaFull == [category |-> "Equity", sub_category |-> "Value", fund_house |-> "JM"]

Scalar(v) == [kind |-> "scalar", v |-> v]
Dict(d) == [kind |-> "dict", d |-> d]

\* attribute shapes: a scalar, a null scalar, a dict with its own source_url
\* and a numeric value, a dict with no source_url, a dict with neither value
\* nor display (the scraper's riskometer), a dict whose source_url is null
AttrsPlain == << [field |-> "exit_load", value |-> Scalar("1%")],
                 [field |-> "min_sip", value |-> Scalar(None)] >>
AttrsDict == << [field |-> "min_sip",
                 value |-> Dict([value |-> "<500>", display |-> "Rs500",
                                 source_url |-> "u2"])],
                [field |-> "riskometer",
                 value |-> Dict([label |-> "Very High", source_url |-> "u2"])],
                [field |-> "expense_ratio", value |-> Dict([value |-> "0.98%"])] >>
AttrsNullUrl == << [field |-> "expense_ratio",
                    value |-> Dict([value |-> "0.98%", source_url |-> None])] >>
AttrsZero == << [field |-> "exit_load",
                 value |-> Dict([value |-> "<0>", display |-> ""])] >>

SchemeBase == [scheme_name |-> "JM Value", source_url |-> "u1", metadata |-> MetaFull]

SchemeRecords ==
    { SchemeBase,
      [scheme_name |-> "JM Value", source_url |-> "u1", metadata |-> MetaFull,
       attributes |-> AttrsPlain],
      [scheme_name |-> "JM Flexicap", source_url |-> "u1", metadata |-> MetaFull,
       attributes |-> AttrsDict, documents |-> << [type |-> "SID", url |-> "u3"] >>],
      [scheme_name |-> "JM Value", source_url |-> "u1", metadata |-> MetaFull,
       attributes |-> AttrsZero, documents |-> << [type |-> "SID"] >>],
      [scheme_name |-> "JM Value", source_url |-> "u1", metadata |-> MetaFull,
       documents |-> << [type |-> "SID", url |-> None] >>],
      [scheme_name |-> "JM Value", source_url |-> "u1", metadata |-> MetaFull,
       attributes |-> AttrsNullUrl],
      [scheme_name |-> "JM Value", source_url |-> "", metadata |-> MetaFull],
      [scheme_name |-> "JM Value", source_url |-> None,
       metadata |-> [category |-> "Equity"]],
      [source_url |-> "u1", metadata |-> MetaFull, attributes |-> AttrsPlain],
      [scheme_name |-> "JM Value", metadata |-> MetaFull],
      [scheme_name |-> "JM Value", source_url |-> "u1", attributes |-> AttrsPlain] }

GuideBase == [guide_key |-> "statement", source_url |-> "u4",
              methods |-> << [label |-> "Groww app",
                              steps |-> << "Open You", "Tap Reports" >>] >>]

GuideRecords ==
    { GuideBase,
      [guide_key |-> "statement", source_url |-> "u4",
       methods |-> << [label |-> "Groww app", steps |-> << "Open You" >>],
                      [label |-> "Website"] >>],
      [guide_key |-> "statement", source_url |-> "u4", methods |-> <<>>],
      [guide_key |-> "statement", source_url |-> "u4"],
      [source_url |-> "u4", methods |-> GuideBase.methods],
      [guide_key |-> "statement", methods |-> GuideBase.methods],
      [guide_key |-> "statement", source_url |-> "u4",
       methods |-> << [label |-> "Groww app"], [steps |-> << "Open You" >>] >>] }

\* the corpora handed to the extractor on its own
Corpora == [schemes : SeqsUpTo(SchemeRecords, MaxSchemes),
            guides : SeqsUpTo(GuideRecords, MaxGuides)]

Corpus(schemes, guides) == [schemes |-> schemes, guides |-> guides]

\* the contents of data/ at the builds of the running system: nothing; a
\* record with a missing key beside a sound one; one guide; one scheme with
\* attributes; a scheme with attributes and a document beside a guide; a
\* scheme whose source_url is null
BuildInputs ==
    { Corpus(<<>>, <<>>),
      Corpus(<< [scheme_name |-> "JM Value", metadata |-> MetaFull] >>, << GuideBase >>),
      Corpus(<< SchemeBase >>,
             << [guide_key |-> "statement", source_url |-> "u4",
                 methods |-> << [label |-> "Groww app"],
                                [steps |-> << "Open You" >>] >>] >>),
      Corpus(<<>>, << [guide_key |-> "statement", source_url |-> "u4"] >>),
      Corpus(<<>>, << GuideBase >>),
      Corpus(<< [scheme_name |-> "JM Value", source_url |-> "u1", metadata |-> MetaFull,
                 attributes |-> AttrsPlain] >>, <<>>),
      Corpus(<< [scheme_name |-> "JM Flexicap", source_url |-> "u1",
                 metadata |-> MetaFull, attributes |-> AttrsDict,
                 documents |-> << [type |-> "SID", url |-> "u3"] >>] >>, <<>>),
      Corpus(<< [scheme_name |-> "JM Value", source_url |-> None,
                 metadata |-> [category |-> "Equity"]] >>, <<>>) }

\* request bodies of POST /api/query as request.get_json() returns them:
\* json is "null" (no JSON body) or "object"; keys are the object's keys;
\* qtype is the JSON type of the question; question is its characters
Body(json, keys, qtype, question) ==
    [json |-> json, keys |-> keys, qtype |-> qtype, question |-> question]

Bodies ==
    { Body("null", {}, "null", <<>>),
      Body("object", {}, "null", <<>>),
      Body("object", {"session"}, "null", <<>>),
      Body("object", {"question"}, "null", <<>>),
      Body("object", {"question"}, "number", <<>>),
      Body("object", {"question"}, "string", <<>>),
      Body("object", {"question"}, "string", << " ", " " >>),
      Body("object", {"question"}, "string", << " ", "e", " " >>),
      Body("object", {"question", "session"}, "string", << "h", "o", "w" >>) }

\* the questions direct callers of retrieve pass
Questions == { << "e" >>, << "h", "o", "w" >> }

\* str.strip()
RECURSIVE LStrip(_)
LStrip(s) == IF s # <<>> /\ Head(s) = " " THEN LStrip(Tail(s)) ELSE s

RECURSIVE RStrip(_)
RStrip(s) ==
    IF s # <<>> /\ s[Len(s)] = " " THEN RStrip(SubSeq(s, 1, Len(s) - 1)) ELSE s

\* a query that forgets to strip
Strip_Missing(s) == s

Strip(s) == RStrip(LStrip(s))

\* ---------------------------------------------------------------- the state

VARIABLES
    indexFile,    \* vector_store/faiss.index: Absent or Written(build, vectors)
    docsFile,     \* vector_store/documents.json: Absent or Written(build, documents)
    buildNo,      \* runs of build_vector_store.py started so far
    bpc,          \* where the build script is
    bcorpus,      \* the contents of data/ the running build read
    bchunks,      \* main: chunks
    bbefore,      \* the two files as the running build found them
    blast,        \* the number and the chunks of the last build that completed
    rpc,          \* where the request (or direct call of retrieve) is
    rvia,         \* "http": POST /api/query; "call": a script calling retrieve
    rdata,        \* query: data
    rquestion,    \* the query string handed to retrieve
    rtopk,        \* retrieve: top_k
    rcalled,      \* retrieve was called for this request
    rsaw,         \* load_index: what the two exists() tests answered
    rindex,       \* load_index: index
    rmetadata,    \* load_index: metadata
    rsearch,      \* retrieve: (distances, indices) of index.search
    rerr,         \* the exception raised while handling the request
    rhits,        \* retrieve: hits, once it has returned
    rresp,        \* the response of the request
    xcorpus,      \* extractor alone: the corpus
    xresult,      \* extractor alone: what collect_chunks produced
    cquestion,    \* composer alone: question
    chits,        \* composer alone: hits
    canswer       \* composer alone: what compose_answer returned

bvars == << indexFile, docsFile, buildNo, bpc, bcorpus, bchunks, bbefore, blast >>
rvars == << rpc, rvia, rdata, rquestion, rtopk, rcalled, rsaw, rindex, rmetadata,
            rsearch, rerr, rhits, rresp >>
xvars == << xcorpus, xresult, cquestion, chits, canswer >>
vars == << bvars, rvars, xvars >>

NoCorpus == Corpus(<<>>, <<>>)
NoBody == Body("null", {}, "null", <<>>)
NoSearch == [indices |-> <<>>, distances |-> <<>>]
NoResponse == [status |-> 0, success |-> FALSE, answer |-> <<>>, source |-> None,
               error |-> NoError]
NotRun == [err |-> "not run", chunks |-> <<>>]
NotComposed == [done |-> FALSE, answer |-> <<>>]

\* top_k of app.query, rag_query.main and test_rag.run_test_case
TopK == 3

BuildOver == {"idle", "raised", "stopped", "done"}
RequestOver == {"idle", "responded"}

InitBuild ==
    /\ indexFile = Absent
    /\ docsFile = Absent
    /\ buildNo = 0
    /\ bpc = "idle"
    /\ bcorpus = NoCorpus
    /\ bchunks = <<>>
    /\ bbefore = [index |-> Absent, docs |-> Absent]
    /\ blast = [build |-> 0, chunks |-> <<>>]

InitRequest ==
    /\ rpc = "idle"
    /\ rvia = "http"
    /\ rdata = NoBody
    /\ rquestion = <<>>
    /\ rtopk = TopK
    /\ rcalled = FALSE
    /\ rsaw = [index |-> FALSE, docs |-> FALSE]
    /\ rindex = Absent
    /\ rmetadata = Absent
    /\ rsearch = NoSearch
    /\ rerr = NoError
    /\ rhits = <<>>
    /\ rresp = NoResponse

InitAlone ==
    /\ xcorpus = NoCorpus
    /\ xresult = NotRun
    /\ cquestion = <<>>
    /\ chits = <<>>
    /\ canswer = NotComposed

Init ==
    /\ InitBuild
    /\ InitRequest
    /\ InitAlone

\* ------------------------------------------------------------------ the build

\* main: collect_chunks runs to its end (or raises) before build_index starts
MainStart(corpus) ==
    /\ bpc \in BuildOver
    /\ buildNo < MaxBuilds
    /\ buildNo' = buildNo + 1
    /\ bcorpus' = corpus
    /\ bbefore' = [index |-> indexFile, docs |-> docsFile]
    /\ LET r == collect_chunks(corpus)
       IN IF r.err # NoError
          THEN bpc' = "raised" /\ bchunks' = <<>>
          ELSE bpc' = "build_index" /\ bchunks' = r.chunks
    /\ UNCHANGED << indexFile, docsFile, blast, rvars, xvars >>

\* build_index up to faiss.write_index
BuildWriteIndex ==
    /\ bpc = "build_index"
    /\ indexFile' = Written(buildNo, IndexRows(bchunks))
    /\ bpc' = "write_documents"
    /\ UNCHANGED << docsFile, buildNo, bcorpus, bchunks, bbefore, blast, rvars, xvars >>

\* build_index: DOCUMENTS_PATH.write_text
BuildWriteDocuments ==
    /\ bpc = "write_documents"
    /\ docsFile' = Written(buildNo, DocumentsPayload(bchunks))
    /\ bpc' = "done"
    /\ blast' = [build |-> buildNo, chunks |-> bchunks]
    /\ UNCHANGED << indexFile, buildNo, bcorpus, bchunks, bbefore, rvars, xvars >>

\* the build process ends between its two writes (killed, or write_text raises)
BuildStop ==
    /\ bpc = "write_documents"
    /\ bpc' = "stopped"
    /\ UNCHANGED << indexFile, docsFile, buildNo, bcorpus, bchunks, bbefore, blast, rvars, xvars >>

\* --------------------------------------------------------------- the requests

\* the response app.query sends, or what a script calling retrieve prints
ErrorResponse(code, e) ==
    [status |-> code, success |-> FALSE, answer |-> <<>>, source |-> None, error |-> e]

\* app.query 68-84 (and rag_query.main 84-86): compose and answer
AnswerResponse(via, question, hits) ==
    [status |-> IF via = "http" THEN 200 ELSE 0,
     success |-> TRUE,
     answer |-> compose_answer(question, hits),
     source |-> IF hits # <<>> THEN Get(hits[1].metadata, "url", None) ELSE None,
     error |-> NoError]

\* app.query 86-90: the outermost except; a script has none
FaultResponse(via, e) ==
    IF via = "http" THEN ErrorResponse(500, e) ELSE ErrorResponse(0, e)

StartRequest(via, data, question, top_k) ==
    /\ rvia' = via
    /\ rdata' = data
    /\ rquestion' = question
    /\ rtopk' = top_k
    /\ rsaw' = [index |-> FALSE, docs |-> FALSE]
    /\ rindex' = Absent
    /\ rmetadata' = Absent
    /\ rsearch' = NoSearch
    /\ rhits' = <<>>

\* app.query 51-69: validate the body, then call retrieve
Query(data) ==
    /\ rpc \in RequestOver
    /\ IF data.json = "null" \/ data.keys = {} \/ "question" \notin data.keys
       THEN /\ StartRequest("http", data, <<>>, TopK)
            /\ rpc' = "responded"
            /\ rcalled' = FALSE
            /\ rerr' = NoError
            /\ rresp' = ErrorResponse(400, "Missing question in request")
       ELSE IF data.qtype # "string"
       THEN /\ StartRequest("http", data, <<>>, TopK)
            /\ rpc' = "responded"
            /\ rcalled' = FALSE
            /\ rerr' = "AttributeError"
            /\ rresp' = FaultResponse("http", "AttributeError")
       ELSE IF Strip(data.question) = <<>>
       THEN /\ StartRequest("http", data, <<>>, TopK)
            /\ rpc' = "responded"
            /\ rcalled' = FALSE
            /\ rerr' = NoError
            /\ rresp' = ErrorResponse(400, "Question cannot be empty")
       ELSE /\ StartRequest("http", data, Strip(data.question), TopK)
            /\ rpc' = "load_index"
            /\ rcalled' = TRUE
            /\ rerr' = NoError
            /\ rresp' = NoResponse
    /\ UNCHANGED << bvars, xvars >>

\* a script calls retrieve(query, top_k)
CallRetrieve(question, top_k) ==
    /\ rpc \in RequestOver
    /\ StartRequest("call", NoBody, question, top_k)
    /\ rpc' = "load_index"
    /\ rcalled' = TRUE
    /\ rerr' = NoError
    /\ rresp' = NoResponse
    /\ UNCHANGED << bvars, xvars >>

\* a load_index that raises only when both files are absent
StoreMissing_OnlyBoth(index_exists, docs_exists) == ~index_exists /\ ~docs_exists

\* load_index: both files must exist
StoreMissing(index_exists, docs_exists) == ~index_exists \/ ~docs_exists

LoadIndexExists ==
    /\ rpc = "load_index"
    /\ rsaw' = [index |-> indexFile.exists, docs |-> docsFile.exists]
    /\ IF StoreMissing(indexFile.exists, docsFile.exists)
       THEN /\ rpc' = "responded"
            /\ rerr' = "Vector store missing"
            /\ rresp' = FaultResponse(rvia, "Vector store missing")
       ELSE /\ rpc' = "read_index"
            /\ UNCHANGED << rerr, rresp >>
    /\ UNCHANGED << rvia, rdata, rquestion, rtopk, rcalled, rindex, rmetadata,
                    rsearch, rhits, bvars, xvars >>

\* load_index: faiss.read_index
LoadReadIndex ==
    /\ rpc = "read_index"
    /\ rindex' = indexFile
    /\ IF ~indexFile.exists
       THEN /\ rpc' = "responded"
            /\ rerr' = "RuntimeError"
            /\ rresp' = FaultResponse(rvia, "RuntimeError")
       ELSE /\ rpc' = "read_documents"
            /\ UNCHANGED << rerr, rresp >>
    /\ UNCHANGED << rvia, rdata, rquestion, rtopk, rcalled, rsaw, rmetadata,
                    rsearch, rhits, bvars, xvars >>

\* load_index reads documents.json; retrieve searches and builds the hits;
\* the caller composes the answer
LoadReadDocuments ==
    /\ rpc = "read_documents"
    /\ rmetadata' = docsFile
    /\ IF ~docsFile.exists
       THEN /\ rsearch' = NoSearch
            /\ rerr' = "FileNotFoundError"
            /\ rhits' = <<>>
            /\ rresp' = FaultResponse(rvia, "FileNotFoundError")
       ELSE \E res \in Search(rindex.rows, Embed(rquestion), rtopk) :
              /\ rsearch' = res
              /\ LET out == RetrieveHits(res, docsFile.rows)
                 IN IF out.err # NoError
                    THEN /\ rerr' = out.err
                         /\ rhits' = <<>>
                         /\ rresp' = FaultResponse(rvia, out.err)
                    ELSE /\ rerr' = NoError
                         /\ rhits' = out.hits
                         /\ rresp' = AnswerResponse(rvia, rquestion, out.hits)
    /\ rpc' = "responded"
    /\ UNCHANGED << rvia, rdata, rquestion, rtopk, rcalled, rsaw, rindex,
                    bvars, xvars >>

Next ==
    \/ \E corpus \in BuildInputs : MainStart(corpus)
    \/ BuildWriteIndex
    \/ BuildWriteDocuments
    \/ BuildStop
    \/ \E data \in Bodies : Query(data)
    \/ \E question \in Questions, top_k \in 1..MaxTopK : CallRetrieve(question, top_k)
    \/ LoadIndexExists
    \/ LoadReadIndex
    \/ LoadReadDocuments

Spec == Init /\ [][Next]_vars

\* ------------------------------------------------------ the extractor alone

InitExtract ==
    /\ InitBuild
    /\ InitRequest
    /\ xcorpus \in Corpora
    /\ xresult = NotRun
    /\ cquestion = <<>>
    /\ chits = <<>>
    /\ canswer = NotComposed

Extract ==
    /\ xresult = NotRun
    /\ xresult' = collect_chunks(xcorpus)
    /\ UNCHANGED << xcorpus, cquestion, chits, canswer, bvars, rvars >>

NextExtract == Extract

SpecExtract == InitExtract /\ [][NextExtract]_vars

\* ------------------------------------------------------- the composer alone

Range(f) == { f[i] : i \in DOMAIN f }

\* document-store rows as the extractor produces them
DocumentSamples ==
    UNION { Range(DocumentsPayload(SchemeChunks(r).chunks)) : r \in SchemeRecords }
    \cup Range(DocumentsPayload(GuideChunks(GuideBase).chunks))

\* hit sequences as retrieve builds them: ranks from 1, distances ascending
HitSequences ==
    { [i \in 1..Len(docs) |-> [rank |-> i, distance |-> i - 1,
                               text |-> docs[i].text, metadata |-> docs[i].metadata]]
      : docs \in SeqsUpTo(DocumentSamples, MaxHits) }

InitCompose ==
    /\ InitBuild
    /\ InitRequest
    /\ xcorpus = NoCorpus
    /\ xresult = NotRun
    /\ cquestion \in Questions
    /\ chits \in HitSequences
    /\ canswer = NotComposed

Compose ==
    /\ canswer = NotComposed
    /\ canswer' = [done |-> TRUE, answer |-> compose_answer(cquestion, chits)]
    /\ UNCHANGED << cquestion, chits, xcorpus, xresult, bvars, rvars >>

NextCompose == Compose

SpecCompose == InitCompose /\ [][NextCompose]_vars

\* ------------------------------------------------------------------ claims

\* C1: when a build_index run has completed, the persisted index and the
\* persisted document store have one row per chunk of that build, and row i
\* of the document store is the {text, metadata} of the chunk whose text was
\* embedded into row i of the index.
C1_BuildAligned ==
    bpc = "done" =>
        /\ indexFile.exists /\ docsFile.exists
        /\ Len(indexFile.rows) = Len(docsFile.rows)
        /\ Len(docsFile.rows) = Len(bchunks)
        /\ \A i \in 1..Len(bchunks) :
             /\ docsFile.rows[i] = [text |-> bchunks[i].text,
                                    metadata |-> bchunks[i].metadata]
             /\ indexFile.rows[i] = Embed(bchunks[i].text)

\* a rebuild over an earlier pair has completed, one of whose chunks has no url
C1_Witness ==
    /\ bpc = "done"
    /\ buildNo >= 2
    /\ bbefore.docs.exists
    /\ \E i \in 1..Len(bchunks) : bchunks[i].metadata.url = None

\* C2: a load_index that succeeds never returns an index written by one build
\* together with a document store written by another build.
C2_LoadedPairFromOneBuild ==
    (rpc = "responded" /\ rindex.exists /\ rmetadata.exists)
        => rindex.build = rmetadata.build

\* a record of the corpus lacks a key the extractor subscripts
MissingRequiredKey(corpus) ==
    \/ \E i \in DOMAIN corpus.schemes :
         ~({"scheme_name", "source_url", "metadata"} \subseteq DOMAIN corpus.schemes[i])
    \/ \E i \in DOMAIN corpus.guides :
         \/ ~({"source_url", "guide_key"} \subseteq DOMAIN corpus.guides[i])
         \/ \E j \in DOMAIN Get(corpus.guides[i], "methods", <<>>) :
              "label" \notin DOMAIN Get(corpus.guides[i], "methods", <<>>)[j]

\* the corpus has no scheme and no guide method
YieldsNoChunk(corpus) ==
    /\ corpus.schemes = <<>>
    /\ \A i \in DOMAIN corpus.guides : Get(corpus.guides[i], "methods", <<>>) = <<>>

\* C3: a build whose corpus yields no chunk, or has a record missing a
\* required key, raises before build_index starts: it holds no chunk list and
\* both files are as the build found them.
C3_FailedBuildWritesNothing ==
    (bpc # "idle" /\ (MissingRequiredKey(bcorpus) \/ YieldsNoChunk(bcorpus))) =>
        /\ bpc = "raised"
        /\ bchunks = <<>>
        /\ indexFile = bbefore.index
        /\ docsFile = bbefore.docs

\* a build over a corpus with a malformed record beside a sound one has raised
\* while an earlier pair is persisted
C3_Witness ==
    /\ bpc = "raised"
    /\ MissingRequiredKey(bcorpus)
    /\ ~YieldsNoChunk(bcorpus)
    /\ indexFile.exists /\ docsFile.exists

\* C4: every chunk the extractor emits carries a non-empty, non-null url in
\* its metadata.
C4_EveryChunkHasUrl ==
    \A i \in 1..Len(xresult.chunks) :
        /\ "url" \in DOMAIN xresult.chunks[i].metadata
        /\ xresult.chunks[i].metadata.url \notin {None, ""}

\* load_index returned a pair to retrieve
Loaded == rpc = "responded" /\ rindex.exists /\ rmetadata.exists

\* C5: retrieve returns at most top_k hits; over an index of fewer than top_k
\* vectors it returns, without raising, fewer than top_k hits: one per stored
\* vector, none from a NoMatch position.
C5_AtMostTopKAndShortIndex ==
    Loaded =>
        /\ rerr = NoError => Len(rhits) <= rtopk
        /\ Len(rindex.rows) < rtopk =>
             /\ rerr = NoError
             /\ Len(rhits) = Len(rindex.rows)
             /\ Len(rhits) < rtopk
             /\ \A i \in 1..Len(rhits) : rsearch.indices[rhits[i].rank] # NoMatch

\* C6: in every non-empty hit sequence retrieve returns, ranks start at 1 and
\* strictly increase along the sequence and distances do not decrease, so
\* the first hit has rank 1 and the smallest distance.
C6_RanksAndDistancesAscend ==
    (Loaded /\ rerr = NoError /\ rhits # <<>>) =>
        /\ rhits[1].rank = 1
        /\ \A i \in 1..Len(rhits) :
             /\ rhits[i].rank >= 1
             /\ rhits[1].distance <= rhits[i].distance
        /\ \A i, j \in 1..Len(rhits) : i < j =>
             /\ rhits[i].rank < rhits[j].rank
             /\ rhits[i].distance <= rhits[j].distance

\* retrieve returned hits at different distances, the nearest not from row 1
C6_Witness ==
    /\ Loaded /\ rerr = NoError
    /\ Len(rhits) >= 2
    /\ rhits[1].distance < rhits[Len(rhits)].distance
    /\ rsearch.indices[1] # 1

\* C7: every hit has the text and the metadata of the document-store row at
\* the position the search matched, and the distance the search reported for
\* that position.
C7_HitIsMatchedRow ==
    (Loaded /\ rerr = NoError) =>
        \A i \in 1..Len(rhits) :
            LET p == rhits[i].rank
                idx == rsearch.indices[p]
            IN /\ idx # NoMatch
               /\ rhits[i].text = rmetadata.rows[idx].text
               /\ rhits[i].metadata = rmetadata.rows[idx].metadata
               /\ rhits[i].distance = rsearch.distances[p]
               /\ rhits[i].distance = L2(rindex.rows[idx], Embed(rquestion))

\* retrieve returned two hits of rows with different metadata, the second hit
\* not from row 2
C7_Witness ==
    /\ Loaded /\ rerr = NoError
    /\ Len(rhits) >= 2
    /\ rhits[1].metadata # rhits[2].metadata
    /\ rsearch.indices[2] # 2

\* C8: retrieve raises 'Vector store missing' exactly when either file is
\* absent at load_index, and then returns no hit list; with both files present
\* it never raises that error, so a returned (possibly empty) list and the
\* missing store are told apart.
C8_MissingStoreIsFatal ==
    (rpc = "responded" /\ rcalled) =>
        /\ (~rsaw.index \/ ~rsaw.docs) <=> rerr = "Vector store missing"
        /\ rerr = "Vector store missing" =>
             /\ rhits = <<>>
             /\ ~rresp.success
             /\ rresp.error = "Vector store missing"
        /\ rresp.success => (rsaw.index /\ rsaw.docs /\ rerr = NoError)

\* retrieve has raised with the index file present and the document store absent
C8_Witness ==
    /\ rpc = "responded" /\ rcalled
    /\ rsaw.index /\ ~rsaw.docs
    /\ rerr = "Vector store missing"

\* C9: compose_answer returns a non-empty string: the 'no factual snippet'
\* message for no hits, the 'source URL is missing' message when the first
\* hit has no usable url, else the first hit's text followed by 'Source: '
\* and the first hit's url, which the answer therefore contains.
C9_ComposePolicy ==
    canswer.done =>
        /\ canswer.answer # <<>>
        /\ chits = <<>> =>
             canswer.answer = << "I could not find a factual snippet for that question." >>
        /\ (chits # <<>> /\ Get(chits[1].metadata, "url", None) \in {None, ""}) =>
             canswer.answer = << "I found information but the source URL is missing." >>
        /\ (chits # <<>> /\ Get(chits[1].metadata, "url", None) \notin {None, ""}) =>
             /\ canswer.answer = << "Answer: " >> \o chits[1].text
                                 \o << "\n\n", "Source: ", chits[1].metadata.url >>
             /\ \E i \in 1..Len(canswer.answer) :
                  canswer.answer[i] = chits[1].metadata.url

\* an answer was composed from two hits, the first cited, the second without url
C9_Witness ==
    /\ canswer.done
    /\ Len(chits) = 2
    /\ chits[1].metadata.url = "u2"
    /\ chits[2].metadata.url = None
    /\ canswer.answer[Len(canswer.answer)] = "u2"

\* the body has no question, or its question is blank
NoQuestion(data) == data.json = "null" \/ "question" \notin data.keys
BlankQuestion(data) ==
    /\ "question" \in data.keys
    /\ data.qtype = "string"
    /\ \A i \in 1..Len(data.question) : data.question[i] = " "

C11_QuestionAnsweredWithSource ==
    (rpc = "responded" /\ rvia = "http" /\ rcalled /\ rsaw.index /\ rsaw.docs) =>
        /\ rresp.status = 200
        /\ rresp.success
        /\ rresp.source = (IF rhits # <<>> THEN Get(rhits[1].metadata, "url", None)
                           ELSE None)
        /\ rresp.source # None =>
             \E i \in 1..Len(rresp.answer) : rresp.answer[i] = rresp.source
        /\ rresp.source = None =>
             rresp.answer \in
                 { << "I could not find a factual snippet for that question." >>,
                   << "I found information but the source URL is missing." >> }

\* C12: once no build is in progress, the two files hold exactly the chunk
\* sequence of the most recent build that completed: one index row and one
\* document per chunk of that build, in its order, and nothing of another build.
C12_LatestCompletedBuildPersisted ==
    (bpc \in BuildOver /\ blast.build > 0) =>
        /\ indexFile.exists /\ docsFile.exists
        /\ indexFile.build = blast.build
        /\ docsFile.build = blast.build
        /\ Len(indexFile.rows) = Len(blast.chunks)
        /\ Len(docsFile.rows) = Len(blast.chunks)
        /\ \A i \in 1..Len(blast.chunks) :
             /\ indexFile.rows[i] = Embed(blast.chunks[i].text)
             /\ docsFile.rows[i] = [text |-> blast.chunks[i].text,
                                    metadata |-> blast.chunks[i].metadata]

\* the resolved display value of an attribute is null: a null scalar, or a dict
\* with no usable display and no value
ResolvesNull(value) ==
    IF value.kind = "dict"
    THEN Get(value.d, "display", None) \in {None, "", "<0>"}
         /\ Get(value.d, "value", None) = None
    ELSE value.v = None

\* type and identifying key of the chunks one scheme record is to yield
ExpectedOfScheme(payload) ==
    LET kept == SelectSeq(Get(payload, "attributes", <<>>),
                          LAMBDA a : ~ResolvesNull(a.value))
        docs == Get(payload, "documents", <<>>)
    IN << [type |-> "scheme_overview", key |-> payload.scheme_name] >>
       \o [i \in 1..Len(kept) |-> [type |-> "scheme_attribute", key |-> kept[i].field]]
       \o [i \in 1..Len(docs) |-> [type |-> "scheme_document",
                                   key |-> payload.scheme_name]]

\* type and identifying key of the chunks one guide record is to yield
ExpectedOfGuide(payload) ==
    LET methods == Get(payload, "methods", <<>>)
    IN [i \in 1..Len(methods) |-> [type |-> "guide", key |-> methods[i].label]]

RECURSIVE Flatten(_)
Flatten(seqs) == IF seqs = <<>> THEN <<>> ELSE Head(seqs) \o Flatten(Tail(seqs))

ExpectedKinds(corpus) ==
    Flatten([i \in 1..Len(corpus.schemes) |-> ExpectedOfScheme(corpus.schemes[i])])
    \o Flatten([i \in 1..Len(corpus.guides) |-> ExpectedOfGuide(corpus.guides[i])])

ChunkKind(chunk) ==
    [type |-> chunk.metadata.type,
     key |-> CASE chunk.metadata.type = "scheme_attribute" -> chunk.metadata.field
               [] chunk.metadata.type = "guide" -> chunk.metadata.label
               [] OTHER -> chunk.metadata.scheme]

\* C13: the collected sequence is, scheme by scheme, one scheme_overview, one
\* scheme_attribute per attribute whose resolved display value is not null (in
\* attribute order), one scheme_document per linked document; then, guide by
\* guide, one guide chunk per method (none for a guide without methods).
C13_EmissionOrder ==
    xresult.err = NoError =>
        /\ Len(xresult.chunks) = Len(ExpectedKinds(xcorpus))
        /\ \A i \in 1..Len(xresult.chunks) :
             ChunkKind(xresult.chunks[i]) = ExpectedKinds(xcorpus)[i]

\* chunks were collected from a scheme with a skipped attribute and a document,
\* followed by a guide with a method
C13_Witness ==
    /\ xresult.err = NoError
    /\ Len(xcorpus.schemes) >= 1 /\ Len(xcorpus.guides) = 1
    /\ \E i \in 1..Len(Get(xcorpus.schemes[1], "attributes", <<>>)) :
         ResolvesNull(xcorpus.schemes[1].attributes[i].value)
    /\ Get(xcorpus.schemes[1], "documents", <<>>) # <<>>
    /\ Get(xcorpus.guides[1], "methods", <<>>) # <<>>
    /\ xresult.chunks[Len(xresult.chunks)].metadata.type = "guide"

\* the url written in the text of a chunk: the last piece, or for a document
\* the piece before the closing full stop
UrlInText(chunk) ==
    IF chunk.metadata.type = "scheme_document"
    THEN chunk.text[Len(chunk.text) - 1]
    ELSE chunk.text[Len(chunk.text)]

\* C14: in every chunk the extractor emits, the url written in the text is
\* the url of the metadata, as an f-string renders it.
C14_TextUrlIsMetadataUrl ==
    \A i \in 1..Len(xresult.chunks) :
        UrlInText(xresult.chunks[i]) = Str(xresult.chunks[i].metadata.url)

====
